---------------------------- MODULE Spec2Model ----------------------------
(***************************************************************************)
(* A model of sqlranger's PartitionChecker (src/src/sqlranger/checker.py). *)
(*                                                                         *)
(* Strings are sequences of one-character strings, so that str.lower() and *)
(* str.split(".")[-1] are computed and not assumed.  The parsed query is   *)
(* the tree sqlglot hands to the checker, kept as a table of SELECT scopes *)
(* with a back-reference to the enclosing SELECT (parent_select).          *)
(***************************************************************************)
EXTENDS Integers, Sequences, FiniteSets, TLC

VARIABLES
    pc,                 \* "new", "raised" (__init__ raised), "idle", "returned",
                        \* "failed" (check_query raised): where the caller stands
    partition_configs,  \* PartitionChecker._partition_configs (key -> PartitionColumn)
    raised,             \* the exception raised by __init__ or by check_query, if any
    partitioned_tables, \* the argument __init__ was called with
    sql,                \* the argument of the check_query call in progress
    calls,              \* the calls of _check_table_partition_in_specific_sql this call made,
                        \* each with the conditions it gathered and what it returned
    violations          \* the list check_query returned

vars == <<pc, partition_configs, raised, partitioned_tables, sql, calls, violations>>

(***************************************************************************)
(* Python's None and optional values.                                      *)
(***************************************************************************)
None == [has |-> FALSE, v |-> 0]
Some(x) == [has |-> TRUE, v |-> x]

(***************************************************************************)
(* Strings.                                                                *)
(***************************************************************************)
LowerChar(c) ==
    CASE c = "S" -> "s"
      [] c = "H" -> "h"
      [] c = "I" -> "i"
      [] c = "D" -> "d"
      [] OTHER -> c

\* str.lower()
Lower(s) == [i \in DOMAIN s |-> LowerChar(s[i])]

\* the index of the last "." of s, 0 when there is none
LastDot(s) ==
    LET dots == {i \in DOMAIN s : s[i] = "."}
    IN  IF dots = {} THEN 0 ELSE CHOOSE i \in dots : \A j \in dots : j <= i

\* PartitionColumn.get_nonqualified_table_name: table_name.split(".")[-1]
get_nonqualified_table_name(pc_) ==
    SubSeq(pc_.table_name, LastDot(pc_.table_name) + 1, Len(pc_.table_name))

(***************************************************************************)
(* Partition rules.                                                        *)
(***************************************************************************)
\* PartitionColumn(table_name, column_name)
PartitionColumn(table_name, column_name) ==
    [cls |-> "PartitionColumn", table_name |-> table_name,
     column_name |-> column_name, max_date_range_days |-> None]

\* DatePartitionColumn(table_name, column_name, date_pattern, max_date_range_days)
DatePartitionColumn(table_name, column_name, max_date_range_days) ==
    [cls |-> "DatePartitionColumn", table_name |-> table_name,
     column_name |-> column_name, max_date_range_days |-> max_date_range_days]

(***************************************************************************)
(* PartitionChecker.__init__: the registry is built rule by rule; a key    *)
(* already present raises ValueError naming the key and both table names.  *)
(***************************************************************************)
EmptyConfigs == [k \in {} |-> None]

config_key_case_sensitive(pc_) == get_nonqualified_table_name(pc_)

config_key(pc_) == Lower(get_nonqualified_table_name(pc_))

RECURSIVE build_configs(_, _, _)
build_configs(rules, i, acc) ==
    IF i > Len(rules)
    THEN [ok |-> TRUE, configs |-> acc, error |-> None]
    ELSE LET pc_ == rules[i]
             key == config_key(pc_)
         IN  IF key \in DOMAIN acc
             THEN [ok |-> FALSE, configs |-> EmptyConfigs,
                   error |-> Some([exc |-> "ValueError", key |-> key,
                                   existing |-> acc[key].table_name,
                                   new |-> pc_.table_name])]
             ELSE build_configs(rules, i + 1,
                                [k \in DOMAIN acc \cup {key} |->
                                    IF k = key THEN pc_ ELSE acc[k]])

(***************************************************************************)
(* Dates.  A literal's text is either of the form Y-M-D (digits) or some   *)
(* other text; datetime.strptime(text, "%Y-%m-%d") accepts the first form  *)
(* when it names a calendar day.  A datetime is its proleptic ordinal.     *)
(***************************************************************************)
YMD(y, m, d) == [form |-> "Y-M-D", y |-> y, m |-> m, d |-> d]
OtherText(t) == [form |-> t, y |-> 0, m |-> 0, d |-> 0]

IsLeap(y) == (y % 4 = 0) /\ ((y % 100 # 0) \/ (y % 400 = 0))

DaysInMonth(y, m) ==
    IF m = 2 THEN (IF IsLeap(y) THEN 29 ELSE 28)
    ELSE IF m \in {4, 6, 9, 11} THEN 30 ELSE 31

RECURSIVE DaysBeforeMonth(_, _)
DaysBeforeMonth(y, m) ==
    IF m <= 1 THEN 0 ELSE DaysBeforeMonth(y, m - 1) + DaysInMonth(y, m - 1)

\* datetime.toordinal()
Ordinal(y, m, d) ==
    (y - 1) * 365 + ((y - 1) \div 4) - ((y - 1) \div 100) + ((y - 1) \div 400)
    + DaysBeforeMonth(y, m) + d

\* PartitionChecker._parse_date_string
_parse_date_string(date_str) ==
    IF /\ date_str.form = "Y-M-D"
       /\ date_str.y \in 1..9999
       /\ date_str.m \in 1..12
       /\ date_str.d \in 1..DaysInMonth(date_str.y, date_str.m)
    THEN Some(Ordinal(date_str.y, date_str.m, date_str.d))
    ELSE None

(***************************************************************************)
(* Expression nodes.  An operand of a comparison is a column, a literal or *)
(* a function call over columns and literals.                              *)
(***************************************************************************)
NoName == <<>>
NoText == OtherText("")

NoOperand ==
    [k |-> "None", table |-> NoName, name |-> NoName, this |-> NoText,
     expressions |-> <<>>]

\* exp.Column: table is the qualifier (empty when there is none)
Column(table, name) ==
    [k |-> "Column", table |-> table, name |-> name, this |-> NoText,
     expressions |-> <<>>]

\* exp.Literal
Literal(text) ==
    [k |-> "Literal", table |-> NoName, name |-> NoName, this |-> text,
     expressions |-> <<>>]

\* exp.Func / exp.Anonymous: name is sql_name().lower()
Func(name, expressions) ==
    [k |-> "Func", table |-> NoName, name |-> name, this |-> NoText,
     expressions |-> expressions]

\* exp.EQ, exp.LT, exp.LTE, exp.GT, exp.GTE
Cmp(op, this, expression) ==
    [op |-> op, this |-> this, expression |-> expression,
     low |-> NoOperand, high |-> NoOperand]

\* exp.Between
Between(this, low, high) ==
    [op |-> "Between", this |-> this, expression |-> NoOperand,
     low |-> low, high |-> high]

\* the operands of a comparison node, in tree order
Operands(condition) ==
    IF condition.op = "Between"
    THEN <<condition.this, condition.low, condition.high>>
    ELSE <<condition.this, condition.expression>>

\* the exp.Column nodes at or under an operand (operand.find_all(exp.Column))
ColumnsOf(operand) ==
    IF operand.k = "Column" THEN {operand}
    ELSE IF operand.k = "Func"
         THEN {operand.expressions[i] : i \in
                 {j \in DOMAIN operand.expressions :
                      operand.expressions[j].k = "Column"}}
         ELSE {}

\* condition.find_all(exp.Column)
ColumnsOfCondition(condition) ==
    LET operands == Operands(condition)
    IN  UNION {ColumnsOf(operands[i]) : i \in DOMAIN operands}

(***************************************************************************)
(* The parsed query: SELECT scopes numbered in the order find_all visits   *)
(* them.  parent is the enclosing SELECT (0: none, a top-level statement   *)
(* or a branch of a top-level UNION); link says where the scope is         *)
(* attached to its parent.  where lists the comparison and BETWEEN nodes   *)
(* of the scope's own WHERE clause in the order where.walk() yields them;  *)
(* having lists those of its HAVING clause (empty: no HAVING).             *)
(***************************************************************************)
Table(name, alias) == [is_table |-> TRUE, name |-> name, alias |-> alias]
NoTable == [is_table |-> FALSE, name |-> NoName, alias |-> NoName]

Select(parent, link, from, joins, has_where, where) ==
    [parent |-> parent, link |-> link, from |-> from, joins |-> joins,
     has_where |-> has_where, where |-> where, having |-> <<>>,
     is_select |-> TRUE, this |-> NoTable]

\* the SELECT with a HAVING clause: the comparison nodes of the exp.Having
\* node, which is an argument of the SELECT beside its exp.Where
Having(select, having) == [select EXCEPT !.having = having]

\* UPDATE this SET ... FROM from WHERE ...: an exp.Update statement; its
\* exp.From and exp.Where are arguments of the statement, which is no SELECT
Update(this, from, has_where, where) ==
    [Select(0, "root", from, <<>>, has_where, where) EXCEPT
        !.is_select = FALSE, !.this = this]

RECURSIVE parent_select(_, _)
\* node.parent_select for a node held by scope s: the nearest exp.Select at
\* or above it, 0 (None) when there is none
parent_select(q, s) ==
    IF s = 0 THEN 0
    ELSE IF q[s].is_select THEN s
    ELSE parent_select(q, q[s].parent)

RECURSIVE IsUnder(_, _, _)
\* scope c is scope s or nested in it
IsUnder(q, c, s) ==
    \/ c = s
    \/ q[c].parent # 0 /\ IsUnder(q, q[c].parent, s)

RECURSIVE SortedSeq(_)
\* a set of scope numbers as a sequence in visiting order
SortedSeq(S) ==
    IF S = {} THEN <<>>
    ELSE LET m == CHOOSE x \in S : \A y \in S : x <= y
         IN  <<m>> \o SortedSeq(S \ {m})

RECURSIVE Flatten(_)
Flatten(ss) == IF ss = <<>> THEN <<>> ELSE Head(ss) \o Flatten(Tail(ss))

\* select.find_all(exp.Select), the scope itself first
ScopesUnder(q, s) == SortedSeq({c \in DOMAIN q : IsUnder(q, c, s)})

\* the exp.Table nodes of one scope's own FROM and JOIN list, after the
\* target of the statement when it is an UPDATE
OwnTables(q, s) ==
    (IF q[s].this.is_table THEN <<q[s].this>> ELSE <<>>)
    \o (IF q[s].from.is_table THEN <<q[s].from>> ELSE <<>>) \o q[s].joins

\* select.find_all(exp.Table): the scope's own tables, then those of nested scopes
TablesUnder(q, s) ==
    LET scopes == ScopesUnder(q, s)
    IN  Flatten([i \in DOMAIN scopes |-> OwnTables(q, scopes[i])])

\* parsed.find_all(exp.Table) over the whole statement
AllTables(q) == Flatten([s \in DOMAIN q |-> OwnTables(q, s)])

(***************************************************************************)
(* Walking WHERE clauses.  A walked node is a comparison node with the     *)
(* scope that owns it (its parent_select).                                 *)
(***************************************************************************)
Node(condition, s) == [condition |-> condition, parent_select |-> s]

\* the comparison nodes of scope s's own WHERE clause
OwnNodes_with_having(q, s) ==
    IF q[s].has_where
    THEN [i \in DOMAIN (q[s].where \o q[s].having) |->
             Node((q[s].where \o q[s].having)[i], s)]
    ELSE <<>>

OwnNodes(q, s) ==
    IF q[s].has_where
    THEN [i \in DOMAIN q[s].where |-> Node(q[s].where[i], s)]
    ELSE <<>>

\* every comparison node of a WHERE clause at or under scope s
NodesUnder(q, s) ==
    LET scopes == ScopesUnder(q, s)
    IN  Flatten([i \in DOMAIN scopes |-> OwnNodes(q, scopes[i])])

\* the scopes attached inside the WHERE clause of scope s (subqueries of its predicates)
WhereChildren(q, s) ==
    SortedSeq({c \in DOMAIN q : q[c].parent = s /\ q[c].link = "where"})

\* where.walk() for the WHERE clause of scope s, kept to comparison nodes:
\* the clause's own nodes, then everything under the subqueries it contains
walk_where(q, s) ==
    LET subqueries == WhereChildren(q, s)
    IN  OwnNodes(q, s) \o
        Flatten([i \in DOMAIN subqueries |-> NodesUnder(q, subqueries[i])])

\* select_sql.find_all(exp.Where): the scopes at or under s that have a WHERE clause
where_clauses(q, s) ==
    SortedSeq({c \in DOMAIN q : IsUnder(q, c, s) /\ q[c].has_where})

(***************************************************************************)
(* PartitionChecker._get_expr_column_table: the dict comprehension keeps   *)
(* the last table visited under each lower-cased alias or name.            *)
(***************************************************************************)
TableKey(table) == Lower(IF table.alias # NoName THEN table.alias ELSE table.name)

_get_expr_column_table(q, column, node) ==
    IF node.parent_select = 0 THEN None
    ELSE IF column.table = NoName THEN None
    ELSE LET tables == TablesUnder(q, node.parent_select)
             hits == {i \in DOMAIN tables : TableKey(tables[i]) = Lower(column.table)}
         IN  IF hits = {} THEN None
             ELSE Some(tables[CHOOSE i \in hits : \A j \in hits : j <= i])

(***************************************************************************)
(* PartitionChecker._references_column_of_table                            *)
(***************************************************************************)
_references_column_of_table_any_alias(q, node, table_name, column_name) ==
    \E column \in ColumnsOfCondition(node.condition) :
        column.name # NoName /\ Lower(column.name) = Lower(column_name)

_references_column_of_table(q, node, table_name, column_name) ==
    \E column \in ColumnsOfCondition(node.condition) :
        /\ column.name # NoName
        /\ Lower(column.name) = Lower(column_name)
        /\ \/ column.table = NoName
           \/ LET table == _get_expr_column_table(q, column, node)
              IN  table.has /\ Lower(table.v.name) = Lower(table_name)

\* SelectSeq for sequences of walked nodes
RECURSIVE FilterNodes(_, _, _, _)
FilterNodes(q, nodes, table_name, column_name) ==
    IF nodes = <<>> THEN <<>>
    ELSE (IF _references_column_of_table(q, Head(nodes), table_name, column_name)
          THEN <<Head(nodes)>> ELSE <<>>)
         \o FilterNodes(q, Tail(nodes), table_name, column_name)

\* PartitionChecker._extract_partition_conditions(where, table_name, column_name)
_extract_partition_conditions(q, where, table_name, column_name) ==
    FilterNodes(q, walk_where(q, where), table_name, column_name)

(***************************************************************************)
(* PartitionChecker._has_function_on_column                                *)
(***************************************************************************)
FuncHasColumn(operand, column_name) ==
    /\ operand.k = "Func"
    /\ \E column \in ColumnsOf(operand) :
          column.name # NoName /\ Lower(column.name) = Lower(column_name)

_has_function_on_column(condition, column_name) ==
    \E i \in DOMAIN Operands(condition) :
        FuncHasColumn(Operands(condition)[i], column_name)

(***************************************************************************)
(* PartitionChecker._has_finite_range                                      *)
(***************************************************************************)
HasOp(conditions, ops) == \E i \in DOMAIN conditions : conditions[i].op \in ops

_has_finite_range_no_equals(conditions) ==
    \/ HasOp(conditions, {"Between"})
    \/ HasOp(conditions, {"GTE", "GT"}) /\ HasOp(conditions, {"LTE", "LT"})

_has_finite_range_one_sided(conditions) ==
    \/ HasOp(conditions, {"Between", "EQ"})
    \/ HasOp(conditions, {"GTE", "GT"})
    \/ HasOp(conditions, {"LTE", "LT"})

_has_finite_range(conditions) ==
    LET has_between == HasOp(conditions, {"Between"})
        has_equals == HasOp(conditions, {"EQ"})
        has_lower_bound == HasOp(conditions, {"GTE", "GT"})
        has_upper_bound == HasOp(conditions, {"LTE", "LT"})
    IN  has_between \/ has_equals \/ (has_lower_bound /\ has_upper_bound)

(***************************************************************************)
(* PartitionChecker._extract_date_value, _extract_date_from_comparison     *)
(***************************************************************************)
_extract_date_value(expr) ==
    IF expr.k = "None" THEN None
    ELSE IF expr.k = "Literal" THEN _parse_date_string(expr.this)
    ELSE IF /\ expr.k = "Func"
            /\ expr.name \in {"date", "from_iso8601_date"}
            /\ expr.expressions # <<>>
            /\ expr.expressions[1].k = "Literal"
         THEN _parse_date_string(expr.expressions[1].this)
         ELSE None

_extract_date_from_comparison(condition) ==
    LET has_column_left == ColumnsOf(condition.this) # {}
        has_column_right == ColumnsOf(condition.expression) # {}
    IN  IF has_column_left /\ ~has_column_right
        THEN _extract_date_value(condition.expression)
        ELSE IF has_column_right /\ ~has_column_left
             THEN _extract_date_value(condition.this)
             ELSE None

(***************************************************************************)
(* PartitionChecker._estimate_date_range: the loop over the conditions,    *)
(* with its break (a BETWEEN with both dates) and its return (an equality  *)
(* with a date).                                                           *)
(***************************************************************************)
\* what follows the loop
EstimateAfterLoop_exclusive(start_date, end_date) ==
    IF start_date.has /\ end_date.has
    THEN Some(end_date.v - start_date.v)
    ELSE None

EstimateAfterLoop(start_date, end_date) ==
    IF start_date.has /\ end_date.has
    THEN Some(end_date.v - start_date.v + 1)
    ELSE None

RECURSIVE EstimateLoop(_, _, _, _)
EstimateLoop(conditions, i, start_date, end_date) ==
    IF i > Len(conditions) THEN EstimateAfterLoop(start_date, end_date)
    ELSE LET condition == conditions[i]
         IN  IF condition.op = "Between"
             THEN LET low == _extract_date_value(condition.low)
                      high == _extract_date_value(condition.high)
                  IN  IF low.has /\ high.has
                      THEN EstimateAfterLoop(low, high)
                      ELSE EstimateLoop(conditions, i + 1, start_date, end_date)
             ELSE LET date_val == _extract_date_from_comparison(condition)
                  IN  IF condition.op = "EQ"
                      THEN IF date_val.has THEN Some(1)
                           ELSE EstimateLoop(conditions, i + 1, start_date, end_date)
                      ELSE IF condition.op \in {"GTE", "GT"}
                      THEN IF date_val.has /\ (~start_date.has \/ date_val.v < start_date.v)
                           THEN EstimateLoop(conditions, i + 1, date_val, end_date)
                           ELSE EstimateLoop(conditions, i + 1, start_date, end_date)
                      ELSE IF date_val.has /\ (~end_date.has \/ date_val.v > end_date.v)
                           THEN EstimateLoop(conditions, i + 1, start_date, date_val)
                           ELSE EstimateLoop(conditions, i + 1, start_date, end_date)

_estimate_date_range(conditions) == EstimateLoop(conditions, 1, None, None)

(***************************************************************************)
(* PartitionCheckResult                                                    *)
(***************************************************************************)
PartitionCheckResult(violation, message, table_name, estimated_days) ==
    [violation |-> violation, message |-> message, table_name |-> table_name,
     estimated_days |-> estimated_days]

\* the f-string messages: the fixed text and the values formatted into it
Message(text, table_name, column_name, days, max_days) ==
    [text |-> text, table |-> table_name, column |-> column_name,
     days |-> days, max |-> max_days, error |-> ""]

ParseMessage(e) ==
    [text |-> "Failed to parse SQL query: ", table |-> NoName, column |-> NoName,
     days |-> None, max |-> None, error |-> e]

(***************************************************************************)
(* PartitionChecker._check_table_partition_in_specific_sql                 *)
(***************************************************************************)
\* the partition conditions gathered from every WHERE clause found under select_sql
partition_conditions(q, select_sql, partition_config) ==
    LET wheres == where_clauses(q, select_sql)
    IN  Flatten([i \in DOMAIN wheres |->
            _extract_partition_conditions(q, wheres[i],
                get_nonqualified_table_name(partition_config),
                partition_config.column_name)])

Conditions(nodes) == [i \in DOMAIN nodes |-> nodes[i].condition]

\* the range check that ends the method
range_violation_at_least(partition_config, table_name, estimated_days) ==
    IF /\ partition_config.cls = "DatePartitionColumn"
       /\ partition_config.max_date_range_days.has
       /\ estimated_days.has
       /\ estimated_days.v >= partition_config.max_date_range_days.v
    THEN Some(PartitionCheckResult("EXCESSIVE_DATE_RANGE",
                Message("has an excessive date range", table_name, NoName,
                        estimated_days, partition_config.max_date_range_days),
                Some(table_name), estimated_days))
    ELSE None

range_violation(partition_config, table_name, estimated_days) ==
    IF /\ partition_config.cls = "DatePartitionColumn"
       /\ partition_config.max_date_range_days.has
       /\ estimated_days.has
       /\ estimated_days.v > partition_config.max_date_range_days.v
    THEN Some(PartitionCheckResult("EXCESSIVE_DATE_RANGE",
                Message("has an excessive date range", table_name, NoName,
                        estimated_days, partition_config.max_date_range_days),
                Some(table_name), estimated_days))
    ELSE None

\* the checks that follow the gathering of the partition conditions
check_conditions_function_last(partition_config, table_name, column_name, conds) ==
    IF conds = <<>>
    THEN Some(PartitionCheckResult("MISSING_DAY_FILTER",
                Message("without a column filter in WHERE clause", table_name,
                        column_name, None, None), Some(table_name), None))
    ELSE IF ~_has_finite_range(conds)
    THEN Some(PartitionCheckResult("NO_FINITE_RANGE",
                Message("does not have a finite date range", table_name, NoName,
                        None, None), Some(table_name), None))
    ELSE IF range_violation(partition_config, table_name, _estimate_date_range(conds)).has
    THEN range_violation(partition_config, table_name, _estimate_date_range(conds))
    ELSE IF \E i \in DOMAIN conds : _has_function_on_column(conds[i], column_name)
    THEN Some(PartitionCheckResult("DAY_FILTER_WITH_FUNCTION",
                Message("uses column with a function", table_name, column_name,
                        None, None), Some(table_name), None))
    ELSE None

check_conditions_no_finite_check(partition_config, table_name, column_name, conds) ==
    IF conds = <<>>
    THEN Some(PartitionCheckResult("MISSING_DAY_FILTER",
                Message("without a column filter in WHERE clause", table_name,
                        column_name, None, None), Some(table_name), None))
    ELSE IF \E i \in DOMAIN conds : _has_function_on_column(conds[i], column_name)
    THEN Some(PartitionCheckResult("DAY_FILTER_WITH_FUNCTION",
                Message("uses column with a function", table_name, column_name,
                        None, None), Some(table_name), None))
    ELSE range_violation(partition_config, table_name, _estimate_date_range(conds))

check_conditions(partition_config, table_name, column_name, conds) ==
    IF conds = <<>>
    THEN Some(PartitionCheckResult("MISSING_DAY_FILTER",
                Message("without a column filter in WHERE clause", table_name,
                        column_name, None, None), Some(table_name), None))
    ELSE IF \E i \in DOMAIN conds : _has_function_on_column(conds[i], column_name)
    THEN Some(PartitionCheckResult("DAY_FILTER_WITH_FUNCTION",
                Message("uses column with a function", table_name, column_name,
                        None, None), Some(table_name), None))
    ELSE IF ~_has_finite_range(conds)
    THEN Some(PartitionCheckResult("NO_FINITE_RANGE",
                Message("does not have a finite date range", table_name, NoName,
                        None, None), Some(table_name), None))
    ELSE range_violation(partition_config, table_name, _estimate_date_range(conds))

_check_table_partition_in_specific_sql(q, select_sql, partition_config) ==
    LET column_name == partition_config.column_name
        table_name == get_nonqualified_table_name(partition_config)
    IN  IF where_clauses(q, select_sql) = <<>>
        THEN Some(PartitionCheckResult("MISSING_DAY_FILTER",
                    Message("without a WHERE clause", table_name, column_name,
                            None, None), Some(table_name), None))
        ELSE check_conditions(partition_config, table_name, column_name,
                 Conditions(partition_conditions(q, select_sql, partition_config)))

(***************************************************************************)
(* PartitionChecker._check_table_partition_hierarchically: one call of the *)
(* per-SELECT check for every FROM clause whose table matches table_name.  *)
(***************************************************************************)
\* the filter over select_sql.find_all(exp.From)
from_clauses_with_joins(q, table_name) ==
    SortedSeq({s \in DOMAIN q :
        \/ /\ q[s].from.is_table
           /\ q[s].from.name # NoName
           /\ Lower(q[s].from.name) = Lower(table_name)
        \/ \E j \in DOMAIN q[s].joins :
              Lower(q[s].joins[j].name) = Lower(table_name)})

from_clauses(q, table_name) ==
    SortedSeq({s \in DOMAIN q :
        /\ q[s].from.is_table
        /\ q[s].from.name # NoName
        /\ Lower(q[s].from.name) = Lower(table_name)})

\* select_sql.find_all(exp.Where) on a select_sql that is None
AttributeError ==
    Some([exc |-> "AttributeError", key |-> NoName, existing |-> NoName, new |-> NoName])

\* one entry per call: the table name iterated, the FROM clause's parent_select,
\* what _check_table_partition_in_specific_sql returned or raised, and the
\* partition conditions it gathered on the way
_check_table_partition_hierarchically(q, table_name, partition_config) ==
    LET froms == from_clauses(q, table_name)
    IN  [i \in DOMAIN froms |->
            LET select_sql == parent_select(q, froms[i])
            IN  IF select_sql = 0
                THEN [table_name |-> table_name, select |-> 0, result |-> None,
                      conditions |-> <<>>, error |-> AttributeError]
                ELSE [table_name |-> table_name, select |-> select_sql,
                      result |-> _check_table_partition_in_specific_sql(q, select_sql,
                                                                        partition_config),
                      conditions |-> partition_conditions(q, select_sql, partition_config),
                      error |-> None]]

\* the calls made until one raises: nothing runs after it
RECURSIVE UpToRaise(_)
UpToRaise(cs) ==
    IF cs = <<>> THEN <<>>
    ELSE IF Head(cs).error.has THEN <<Head(cs)>>
    ELSE <<Head(cs)>> \o UpToRaise(Tail(cs))

\* results.append(check_result) for the results that are not None
RECURSIVE Results(_)
Results(cs) ==
    IF cs = <<>> THEN <<>>
    ELSE (IF Head(cs).result.has THEN <<Head(cs).result.v>> ELSE <<>>)
         \o Results(Tail(cs))

(***************************************************************************)
(* PartitionChecker._extract_tables and check_query                        *)
(***************************************************************************)
_extract_tables(q) ==
    LET tables == AllTables(q)
    IN  {tables[i].name : i \in {j \in DOMAIN tables : tables[j].name # NoName}}

\* the orders in which a Python set of strings may be iterated
Orders(S) ==
    {f \in [1..Cardinality(S) -> S] : \A i, j \in 1..Cardinality(S) : f[i] = f[j] => i = j}

\* the body of the loop over the tables, for the names in iteration order
check_query_calls_exact_case(configs, q, order) ==
    Flatten([i \in DOMAIN order |->
        IF order[i] \in DOMAIN configs
        THEN _check_table_partition_hierarchically(q, order[i], configs[order[i]])
        ELSE <<>>])

check_query_calls_unregistered(configs, q, order) ==
    Flatten([i \in DOMAIN order |->
        _check_table_partition_hierarchically(q, order[i],
            IF Lower(order[i]) \in DOMAIN configs
            THEN configs[Lower(order[i])]
            ELSE configs[CHOOSE k \in DOMAIN configs : TRUE])])

check_query_calls(configs, q, order) ==
    Flatten([i \in DOMAIN order |->
        IF Lower(order[i]) \in DOMAIN configs
        THEN _check_table_partition_hierarchically(q, order[i], configs[Lower(order[i])])
        ELSE <<>>])

\* the except branch of check_query
invalid_syntax_empty(e) == <<>>

invalid_syntax(e) ==
    <<PartitionCheckResult("QUERY_INVALID_SYNTAX", ParseMessage(e), None, None)>>

\* PartitionChecker.check_query: what it returns or raises, and the calls it made
check_query(configs, s, order) ==
    IF ~s.parsed
    THEN [calls |-> <<>>, violations |-> invalid_syntax(s.error), error |-> None]
    ELSE LET cs == UpToRaise(check_query_calls(configs, s.selects, order))
         IN  IF cs # <<>> /\ cs[Len(cs)].error.has
             THEN [calls |-> cs, violations |-> <<>>, error |-> cs[Len(cs)].error]
             ELSE [calls |-> cs, violations |-> Results(cs), error |-> None]

(***************************************************************************)
(* Bounds of the model.                                                    *)
(***************************************************************************)
MaxRules == 3     \* rules in the list given to __init__
MaxConds == 2     \* comparison nodes in the WHERE clause of a one-SELECT query
MaxNested == 1    \* SELECTs beside or inside the first one of a nested query
MaxRangeConds == 3 \* comparison nodes in the WHERE clause of a date-range query
MaxCallConds == 1  \* comparison nodes in the WHERE clause of a query called back to back

(***************************************************************************)
(* Inputs: names, rules, comparison nodes, queries.                        *)
(***************************************************************************)
sh == <<"s", "h">>
SH == <<"S", "H">>
inv == <<"i", "n">>
f_sh == <<"f", ".", "s", "h">>
g_SH == <<"g", ".", "S", "H">>
g_inv == <<"g", ".", "i", "n">>
c_g_In == <<"c", ".", "g", ".", "I", "n">>
alias_a == <<"a">>
alias_b == <<"b">>
day == <<"d">>
DAY == <<"D">>
other == <<"x">>

D1 == Literal(YMD(2021, 9, 13))
D2 == Literal(YMD(2021, 9, 26))
D0 == Literal(YMD(2021, 9, 1))
D3 == Literal(YMD(2021, 10, 5))
BadDate == Literal(YMD(2021, 2, 30))
NotDate == Literal(OtherText("2021-09"))

\* the rules __init__ is tried with
Rules ==
    {PartitionColumn(sh, day), PartitionColumn(f_sh, day),
     DatePartitionColumn(g_SH, DAY, Some(13)), PartitionColumn(g_inv, day),
     DatePartitionColumn(c_g_In, day, Some(14))}

SeqsUpTo(S, n) == UNION {[1..k -> S] : k \in 0..n}

RuleLists == SeqsUpTo(Rules, MaxRules)

\* the rule lists of the checkers that queries are run against
CheckerRuleLists ==
    {<<PartitionColumn(f_sh, day)>>,
     <<DatePartitionColumn(g_SH, DAY, Some(13))>>,
     <<DatePartitionColumn(sh, day, Some(14)), PartitionColumn(g_inv, day)>>}

\* the comparison nodes of the WHERE clauses
CondSet ==
    {Cmp("EQ", Column(NoName, day), D1),
     Cmp("EQ", Column(alias_b, day), D1),
     Cmp("GTE", Column(alias_a, day), D1),
     Cmp("LTE", Column(NoName, day), D2),
     Between(Column(NoName, day), D1, D2),
     Cmp("EQ", Func("date_format", <<Column(NoName, day), NotDate>>), NotDate),
     Cmp("EQ", Column(NoName, other), D1),
     Cmp("GT", Column(NoName, day), BadDate),
     Cmp("LTE", D1, Column(NoName, day)),
     Cmp("EQ", Column(alias_a, day), Func("f", <<Column(alias_b, day)>>))}

NestCondSet == {Cmp("EQ", Column(NoName, day), D1)}

Wheres(conds, n) ==
    {[has_where |-> FALSE, where |-> <<>>]} \cup
    {[has_where |-> TRUE, where |-> w] : w \in SeqsUpTo(conds, n)}

\* the SELECTs of nested queries: no WHERE clause, or one with one comparison
NestWheres ==
    {[has_where |-> FALSE, where |-> <<>>]} \cup
    {[has_where |-> TRUE, where |-> <<c>>] : c \in NestCondSet}

NestFroms == {Table(sh, NoName), Table(SH, alias_a), NoTable}

\* the FROM and JOIN lists of the one-SELECT queries
SiteTables ==
    {[from |-> Table(sh, NoName), joins |-> <<>>],
     [from |-> Table(SH, alias_a), joins |-> <<>>],
     [from |-> Table(SH, alias_a), joins |-> <<Table(inv, alias_b)>>],
     [from |-> Table(SH, alias_a), joins |-> <<Table(sh, alias_b)>>],
     [from |-> Table(inv, alias_b), joins |-> <<Table(sh, alias_a)>>],
     [from |-> Table(sh, NoName), joins |-> <<Table(SH, alias_a)>>]}

\* queries of one SELECT
SiteQueries ==
    {<<Select(0, "root", t.from, t.joins, w.has_where, w.where)>> :
        t \in SiteTables, w \in Wheres(CondSet, MaxConds)}

\* the ways a further SELECT can be attached to a query
LinksFor(q, p) ==
    IF p = 0 THEN {"union"}
    ELSE {"cte"}
         \cup (IF q[p].has_where THEN {"where"} ELSE {})
         \cup (IF ~q[p].from.is_table /\ ~\E c \in DOMAIN q : q[c].parent = p /\ q[c].link = "from"
               THEN {"from"} ELSE {})

NestSelects(q) ==
    {Select(p, link, from, <<>>, w.has_where, w.where) :
        p \in 0..Len(q), link \in {"union", "cte", "where", "from"},
        from \in NestFroms, w \in NestWheres}

Extend(Q) ==
    UNION {{Append(q, s) : s \in {t \in NestSelects(q) : t.link \in LinksFor(q, t.parent)}} : q \in Q}

RECURSIVE NestQueriesOf(_)
\* queries of 1 + n SELECTs
NestQueriesOf(n) ==
    IF n = 0
    THEN {<<Select(0, "root", from, <<>>, w.has_where, w.where)>> :
             from \in NestFroms, w \in NestWheres}
    ELSE Extend(NestQueriesOf(n - 1))

NestQueries == UNION {NestQueriesOf(n) : n \in 1..MaxNested}

\* queries of one SELECT with a HAVING clause, with and without a WHERE clause
HavingQueries ==
    {<<Having(Select(0, "root", from, <<>>, w.has_where, w.where), <<h>>)>> :
        from \in {Table(sh, NoName), Table(SH, alias_a)},
        w \in Wheres({Cmp("LTE", Column(NoName, day), D2),
                      Cmp("EQ", Column(NoName, other), D1)}, 1),
        h \in {Cmp("EQ", Column(NoName, day), D1),
               Between(Column(NoName, day), D1, D2),
               Cmp("GTE", Column(alias_a, day), D1)}}

\* queries of one SELECT over a table that only some checkers have a rule for
OtherTableQueries ==
    {<<Select(0, "root", from, <<>>, w.has_where, w.where)>> :
        from \in {Table(inv, NoName), Table(inv, alias_b)},
        w \in Wheres(NestCondSet, 1)}

\* UPDATE statements whose FROM clause names a table
UpdateQueries ==
    {<<Update(t.this, t.from, w.has_where, w.where)>> :
        t \in {[this |-> Table(inv, NoName), from |-> Table(sh, NoName)],
               [this |-> Table(inv, NoName), from |-> Table(SH, alias_a)],
               [this |-> Table(sh, NoName), from |-> Table(inv, alias_b)]},
        w \in Wheres(NestCondSet, 1)}

Parsed(q) == [parsed |-> TRUE, error |-> "", selects |-> q]
Invalid(e) == [parsed |-> FALSE, error |-> e, selects |-> <<>>]
NoSql == Invalid("")

\* what sqlglot.parse_one makes of the texts check_query is called with
SqlInputs ==
    {Parsed(q) : q \in SiteQueries \cup NestQueries \cup HavingQueries
                        \cup OtherTableQueries \cup UpdateQueries}
    \cup {Invalid(e) : e \in {"ParseError", "TokenError"}}

(***************************************************************************)
(* The state machine: a caller constructs a checker, then calls            *)
(* check_query and takes the list it returns, again and again.             *)
(***************************************************************************)
Init ==
    /\ pc = "new"
    /\ partition_configs = EmptyConfigs
    /\ raised = None
    /\ partitioned_tables = <<>>
    /\ sql = NoSql
    /\ calls = <<>>
    /\ violations = <<>>

\* PartitionChecker(partitioned_tables)
Construct(pt) ==
    /\ pc = "new"
    /\ LET r == build_configs(pt, 1, EmptyConfigs)
       IN  /\ pc' = IF r.ok THEN "idle" ELSE "raised"
           /\ partition_configs' = r.configs
           /\ raised' = r.error
    /\ partitioned_tables' = pt
    /\ UNCHANGED <<sql, calls, violations>>

\* checker.check_query(sql)
CheckQuery(s) ==
    /\ pc = "idle"
    /\ \E order \in Orders(IF s.parsed THEN _extract_tables(s.selects) ELSE {}) :
          LET r == check_query(partition_configs, s, order)
          IN  /\ calls' = r.calls
              /\ violations' = r.violations
              /\ raised' = r.error
              /\ pc' = IF r.error.has THEN "failed" ELSE "returned"
    /\ sql' = s
    /\ UNCHANGED <<partition_configs, partitioned_tables>>

\* the caller is done with the returned list, or with the exception
Return ==
    /\ pc \in {"returned", "failed"}
    /\ pc' = "idle"
    /\ raised' = None
    /\ sql' = NoSql
    /\ calls' = <<>>
    /\ violations' = <<>>
    /\ UNCHANGED <<partition_configs, partitioned_tables>>

Next ==
    \/ pc = "new" /\ \E pt \in CheckerRuleLists : Construct(pt)
    \/ pc = "idle" /\ \E s \in SqlInputs : CheckQuery(s)
    \/ Return

Spec == Init /\ [][Next]_vars

\* construction alone, over every rule list
NextInit == pc = "new" /\ \E pt \in RuleLists : Construct(pt)

SpecInit == Init /\ [][NextInit]_vars

(***************************************************************************)
(* Date ranges: checkers with a max range, run against one-SELECT queries  *)
(* whose WHERE clause bounds the partition column from either side, with   *)
(* the column on the left or on the right of the comparison.               *)
(***************************************************************************)
RangeRuleLists ==
    {<<DatePartitionColumn(sh, day, Some(13))>>,
     <<DatePartitionColumn(f_sh, day, Some(25))>>}

RangeCondSet ==
    {Cmp("GTE", Column(NoName, day), D0),
     Cmp("GTE", Column(NoName, day), D1),
     Cmp("LTE", Column(NoName, day), D2),
     Cmp("LT", Column(NoName, day), D3),
     Cmp("LTE", D1, Column(NoName, day)),
     Cmp("GTE", D2, Column(NoName, day)),
     Between(Column(NoName, day), D1, D2),
     Between(Column(NoName, day), D1, NotDate),
     Between(Column(NoName, day), D2, D1),
     Cmp("LTE", Column(NoName, day), D0),
     Cmp("EQ", Column(NoName, day), D1)}

RangeQueries ==
    {<<Select(0, "root", Table(sh, NoName), <<>>, TRUE, w)>> :
        w \in SeqsUpTo(RangeCondSet, MaxRangeConds)}

RangeSqlInputs == {Parsed(q) : q \in RangeQueries}

NextRange ==
    \/ pc = "new" /\ \E pt \in RangeRuleLists : Construct(pt)
    \/ pc = "idle" /\ \E s \in RangeSqlInputs : CheckQuery(s)
    \/ Return

SpecRange == Init /\ [][NextRange]_vars

(***************************************************************************)
(* Calls back to back: the caller calls check_query again on the same      *)
(* checker while it still holds the list the call before returned.         *)
(***************************************************************************)
CheckQueryAgain_shared_list(s) ==
    /\ pc = "returned"
    /\ \E order \in Orders(IF s.parsed THEN _extract_tables(s.selects) ELSE {}) :
          LET r == check_query(partition_configs, s, order)
          IN  /\ calls' = r.calls
              /\ violations' = violations \o r.violations
              /\ raised' = r.error
              /\ pc' = IF r.error.has THEN "failed" ELSE "returned"
    /\ sql' = s
    /\ UNCHANGED <<partition_configs, partitioned_tables>>

\* checker.check_query(sql) once more: `violations = []` is a new list, the
\* list of the call before is not touched
CheckQueryAgain(s) ==
    /\ pc = "returned"
    /\ \E order \in Orders(IF s.parsed THEN _extract_tables(s.selects) ELSE {}) :
          LET r == check_query(partition_configs, s, order)
          IN  /\ calls' = r.calls
              /\ violations' = r.violations
              /\ raised' = r.error
              /\ pc' = IF r.error.has THEN "failed" ELSE "returned"
    /\ sql' = s
    /\ UNCHANGED <<partition_configs, partitioned_tables>>

CallCondSet ==
    {Cmp("EQ", Column(NoName, day), D1),
     Cmp("GTE", Column(alias_a, day), D1),
     Between(Column(NoName, day), D1, D2)}

CallQueries ==
    {<<Select(0, "root", t.from, t.joins, w.has_where, w.where)>> :
        t \in SiteTables, w \in Wheres(CallCondSet, MaxCallConds)}

CallSqlInputs ==
    {Parsed(q) : q \in CallQueries \cup HavingQueries \cup OtherTableQueries}
    \cup {Invalid(e) : e \in {"ParseError", "TokenError"}}

NextCalls ==
    \/ pc = "new" /\ \E pt \in CheckerRuleLists : Construct(pt)
    \/ pc = "idle" /\ \E s \in CallSqlInputs : CheckQuery(s)
    \/ pc = "returned" /\ \E s \in CallSqlInputs : CheckQueryAgain(s)
    \/ Return

SpecCalls == Init /\ [][NextCalls]_vars

(***************************************************************************)
(* Properties.  A call is one entry of `calls`: the usage-site (the SELECT *)
(* whose primary FROM names a registered table) and what the per-site      *)
(* check returned for it.                                                  *)
(***************************************************************************)
Done == pc = "returned" /\ sql.parsed

CallRule(i) == partition_configs[Lower(calls[i].table_name)]

\* the qualifying conditions the check of call i gathered
CallNodes(i) == calls[i].conditions

Is(result, violation) == result.has /\ result.v.violation = violation

\* the column is the rule's partition column by name
Named(column, rule) ==
    column.k = "Column" /\ column.name # NoName
    /\ Lower(column.name) = Lower(rule.column_name)

\* C1: every usage-site whose own SELECT has no WHERE clause gets
\* MISSING_DAY_FILTER from the per-site check, whatever is nested in the SELECT
\* (the verdict half of "exactly one MISSING_DAY_FILTER per such usage-site").
C1_NoWhereIsMissing ==
    Done => \A i \in DOMAIN calls :
        ~sql.selects[calls[i].select].has_where
            => Is(calls[i].result, "MISSING_DAY_FILTER")

\* the tables under the owning SELECT that a qualifier may name
Candidates(node, column) ==
    LET tables == TablesUnder(sql.selects, node.parent_select)
    IN  {tables[j] : j \in {k \in DOMAIN tables : TableKey(tables[k]) = Lower(column.table)}}

\* every reference to the partition column in the node is qualified, and no
\* qualifier names a table called like the table under test
FiltersOtherTable(node, rule) ==
    /\ \E column \in ColumnsOfCondition(node.condition) : Named(column, rule)
    /\ \A column \in ColumnsOfCondition(node.condition) :
          Named(column, rule) =>
              /\ column.table # NoName
              /\ \A t \in Candidates(node, column) :
                    Lower(t.name) # Lower(get_nonqualified_table_name(rule))

\* every comparison node the check of call i walks
WalkedNodes(i) ==
    LET wheres == where_clauses(sql.selects, calls[i].select)
    IN  Flatten([j \in DOMAIN wheres |-> walk_where(sql.selects, wheres[j])])

\* C2: a comparison whose partition-column references are all qualified by an
\* alias that resolves to another table, or to none, is not counted for the
\* table under test; when the WHERE clauses hold only such comparisons (and
\* comparisons of other columns) the usage-site gets MISSING_DAY_FILTER.
C2_OtherTableFilterNotCounted ==
    Done => \A i \in DOMAIN calls :
        LET walked == WalkedNodes(i)
            counted == CallNodes(i)
        IN  /\ \A j \in DOMAIN walked :
                  FiltersOtherTable(walked[j], CallRule(i))
                      => ~\E k \in DOMAIN counted : counted[k] = walked[j]
            /\ (\A j \in DOMAIN walked :
                    \/ FiltersOtherTable(walked[j], CallRule(i))
                    \/ ~\E column \in ColumnsOfCondition(walked[j].condition) :
                           Named(column, CallRule(i)))
                  => Is(calls[i].result, "MISSING_DAY_FILTER")

\* a usage-site of a table aliased a joined to another table b, filtered on b.day only
C2_Witness ==
    /\ Done
    /\ \E i \in DOMAIN calls :
          LET select == sql.selects[calls[i].select]
          IN  /\ select.from.alias = alias_a
              /\ select.joins = <<Table(inv, alias_b)>>
              /\ select.has_where
              /\ select.where = <<Cmp("EQ", Column(alias_b, day), D1)>>
              /\ Is(calls[i].result, "MISSING_DAY_FILTER")

\* the one-SELECT query made of the SELECT of scope s alone
Alone(s) == <<[sql.selects[s] EXCEPT !.parent = 0, !.link = "root"]>>

\* C3: the verdict of a usage-site is the verdict its SELECT gets on its own:
\* it does not change with the WHERE clauses of sibling branches, of CTEs
\* attached to the SELECT or of subqueries nested in it.
C3_VerdictOfOwnSelect ==
    Done => \A i \in DOMAIN calls :
        calls[i].result =
            _check_table_partition_in_specific_sql(Alone(calls[i].select), 1, CallRule(i))

\* the node applies a function to the partition column of the table under test
WrapsOwnColumn(node, rule) ==
    \E j \in DOMAIN Operands(node.condition) :
        LET operand == Operands(node.condition)[j]
        IN  /\ operand.k = "Func"
            /\ \E column \in ColumnsOf(operand) :
                  /\ Named(column, rule)
                  /\ \/ column.table = NoName
                     \/ \E t \in Candidates(node, column) :
                           Lower(t.name) = Lower(get_nonqualified_table_name(rule))
                     /\ \A t \in Candidates(node, column) :
                           Lower(t.name) = Lower(get_nonqualified_table_name(rule))

\* C4: a usage-site one of whose qualifying conditions applies a function to
\* the partition column gets DAY_FILTER_WITH_FUNCTION, whatever its other
\* qualifying conditions are.
C4_FunctionWins ==
    Done => \A i \in DOMAIN calls :
        (\E k \in DOMAIN CallNodes(i) : WrapsOwnColumn(CallNodes(i)[k], CallRule(i)))
            => Is(calls[i].result, "DAY_FILTER_WITH_FUNCTION")

\* a function-wrapped condition beside a BETWEEN that would be an excessive range
C4_Witness ==
    /\ Done
    /\ \E i \in DOMAIN calls :
          /\ CallRule(i).max_date_range_days = Some(13)
          /\ sql.selects[calls[i].select].where =
                <<Between(Column(NoName, day), D1, D2),
                  Cmp("EQ", Func("date_format", <<Column(NoName, day), NotDate>>), NotDate)>>
          /\ Is(calls[i].result, "DAY_FILTER_WITH_FUNCTION")

\* the operand is the raw partition column of the table under test
OwnColumn(node, operand, rule) ==
    /\ Named(operand, rule)
    /\ \/ operand.table = NoName
       \/ /\ Candidates(node, operand) # {}
          /\ \A t \in Candidates(node, operand) :
                Lower(t.name) = Lower(get_nonqualified_table_name(rule))

HasMax(rule) == rule.cls = "DatePartitionColumn" /\ rule.max_date_range_days.has

\* the SELECT's own WHERE clause has a comparison `col op ...` of the given kinds
OwnWhereHas(i, ops) ==
    LET own == OwnNodes(sql.selects, calls[i].select)
    IN  \E j \in DOMAIN own :
            own[j].condition.op \in ops /\ OwnColumn(own[j], own[j].condition.this, CallRule(i))

\* no qualifying condition applies a function to a column named like the partition column
NoWrapping(i) ==
    \A k \in DOMAIN CallNodes(i) :
        \A j \in DOMAIN Operands(CallNodes(i)[k].condition) :
            LET operand == Operands(CallNodes(i)[k].condition)[j]
            IN  operand.k = "Func" =>
                    \A column \in ColumnsOf(operand) : ~Named(column, CallRule(i))

FiniteFilter(i) ==
    /\ ~HasMax(CallRule(i))
    /\ NoWrapping(i)
    /\ \/ OwnWhereHas(i, {"Between"})
       \/ OwnWhereHas(i, {"EQ"})
       \/ OwnWhereHas(i, {"GTE", "GT"}) /\ OwnWhereHas(i, {"LTE", "LT"})

ResultsFor(key) ==
    {i \in DOMAIN violations :
        violations[i].table_name = Some(get_nonqualified_table_name(partition_configs[key]))}

\* the primary FROM references to the table registered under key
FromReferences(key) ==
    {s \in DOMAIN sql.selects :
        sql.selects[s].from.is_table /\ Lower(sql.selects[s].from.name) = key}

\* C6: the results returned for a registered table are never more than the
\* primary FROM references to it, however its name is spelled in the query.
C6_AtMostOneResultPerSite ==
    Done => \A key \in DOMAIN partition_configs :
        Cardinality(ResultsFor(key)) <= Cardinality(FromReferences(key))

RECURSIVE ShortLower(_)
ShortLower(name) ==
    IF \E i \in DOMAIN name : name[i] = "."
    THEN ShortLower(Tail(name))
    ELSE Lower(name)

Collide(i, j) ==
    /\ i < j
    /\ ShortLower(partitioned_tables[i].table_name) = ShortLower(partitioned_tables[j].table_name)

\* C8: construction raises exactly when two rules of the list have the same
\* short table name up to letter case; the error names that short name and the
\* table names of both rules; after a construction that succeeds the registry
\* holds every rule under its lower-cased short name, one entry per rule.
C8_DuplicateShortNameRaises ==
    LET n == Len(partitioned_tables)
    IN  pc # "new" =>
        /\ (pc = "raised") <=> (\E i, j \in 1..n : Collide(i, j))
        /\ (pc = "raised") =>
              /\ raised.has
              /\ \E i, j \in 1..n :
                    /\ Collide(i, j)
                    /\ raised.v.key = ShortLower(partitioned_tables[j].table_name)
                    /\ raised.v.existing = partitioned_tables[i].table_name
                    /\ raised.v.new = partitioned_tables[j].table_name
        /\ (pc # "raised") =>
              /\ raised = None
              /\ Cardinality(DOMAIN partition_configs) = n
              /\ \A i \in 1..n :
                    /\ ShortLower(partitioned_tables[i].table_name) \in DOMAIN partition_configs
                    /\ partition_configs[ShortLower(partitioned_tables[i].table_name)]
                          = partitioned_tables[i]

\* f.sh and g.SH collide on sh
C8_Witness ==
    /\ pc = "raised"
    /\ raised.has
    /\ raised.v.key = sh
    /\ raised.v.existing = f_sh
    /\ raised.v.new = g_SH

\* the checks that come before the range check pass for call i
EarlierRulesPass(i) ==
    LET conds == Conditions(CallNodes(i))
    IN  /\ where_clauses(sql.selects, calls[i].select) # <<>>
        /\ conds # <<>>
        /\ ~\E k \in DOMAIN conds : _has_function_on_column(conds[k], CallRule(i).column_name)
        /\ _has_finite_range(conds)

Estimate(i) == _estimate_date_range(Conditions(CallNodes(i)))

EqualsDate(node, rule) ==
    /\ node.condition.op = "EQ"
    /\ \/ /\ OwnColumn(node, node.condition.this, rule)
          /\ node.condition.expression.k = "Literal"
          /\ _parse_date_string(node.condition.expression.this).has
       \/ /\ OwnColumn(node, node.condition.expression, rule)
          /\ node.condition.this.k = "Literal"
          /\ _parse_date_string(node.condition.this.this).has

\* C10: when the qualifying conditions of a usage-site include an equality of
\* the partition column with a parseable date literal, the estimate the range
\* check computes is 1 day, whatever and wherever the other conditions are.
C10_EqualityEstimatesOneDay ==
    Done => \A i \in DOMAIN calls :
        (/\ EarlierRulesPass(i)
         /\ HasMax(CallRule(i))
         /\ \E k \in DOMAIN CallNodes(i) : EqualsDate(CallNodes(i)[k], CallRule(i)))
            => Estimate(i) = Some(1)

\* a calendar of its own for the expected day counts: the day of the year
MonthStarts == <<0, 31, 59, 90, 120, 151, 181, 212, 243, 273, 304, 334>>
MonthLengths == <<31, 28, 31, 30, 31, 30, 31, 31, 30, 31, 30, 31>>

\* the operand is a quoted YYYY-MM-DD text that names a day of the calendar
DateLiteral(operand) ==
    /\ operand.k = "Literal"
    /\ operand.this.form = "Y-M-D"
    /\ operand.this.y \in 1..9999
    /\ operand.this.m \in 1..12
    /\ operand.this.d >= 1
    /\ operand.this.d <= MonthLengths[operand.this.m]
            + (IF operand.this.m = 2 /\ IsLeap(operand.this.y) THEN 1 ELSE 0)

DayOfYear(operand) ==
    MonthStarts[operand.this.m] + operand.this.d
    + (IF operand.this.m > 2 /\ IsLeap(operand.this.y) THEN 1 ELSE 0)

\* both ends included; the dates of the queries are of one year
InclusiveDays(low, high) == DayOfYear(high) - DayOfYear(low) + 1

\* BETWEEN on the raw partition column of the table under test, both ends date literals
CompleteBetween(node, rule) ==
    /\ node.condition.op = "Between"
    /\ OwnColumn(node, node.condition.this, rule)
    /\ DateLiteral(node.condition.low)
    /\ DateLiteral(node.condition.high)
    /\ node.condition.low.this.y = node.condition.high.this.y

\* the verdict of the range check for a site whose estimate is n days
RangeVerdict(i, n) ==
    IF n > CallRule(i).max_date_range_days.v
    THEN /\ Is(calls[i].result, "EXCESSIVE_DATE_RANGE")
         /\ calls[i].result.v.estimated_days = Some(n)
    ELSE calls[i].result = None

\* C11: when the first BETWEEN with two parseable date literals among the
\* qualifying conditions runs from low to high, the estimate of the range
\* check is (high - low) in days + 1, whatever inequalities stand before or
\* after it (no function wrapping, no equality with a date among the
\* conditions): EXCESSIVE_DATE_RANGE with that count when it is above the max,
\* no result otherwise.
C11_BetweenEstimateIsInclusive ==
    Done => \A i \in DOMAIN calls : \A k \in DOMAIN CallNodes(i) :
        (/\ HasMax(CallRule(i))
         /\ NoWrapping(i)
         /\ CompleteBetween(CallNodes(i)[k], CallRule(i))
         /\ \A j \in 1..(k - 1) : ~CompleteBetween(CallNodes(i)[j], CallRule(i))
         /\ \A j \in DOMAIN CallNodes(i) : ~EqualsDate(CallNodes(i)[j], CallRule(i)))
            => RangeVerdict(i, InclusiveDays(CallNodes(i)[k].condition.low,
                                            CallNodes(i)[k].condition.high))

\* day >= 2021-09-01 AND day BETWEEN 2021-09-13 AND 2021-09-26 under a max of
\* 13 days: 14 days, not the 26 from the earlier lower bound
C11_Witness ==
    /\ Done
    /\ \E i \in DOMAIN calls :
          /\ CallRule(i).max_date_range_days = Some(13)
          /\ sql.selects[calls[i].select].where =
                <<Cmp("GTE", Column(NoName, day), D0),
                  Between(Column(NoName, day), D1, D2)>>
          /\ Is(calls[i].result, "EXCESSIVE_DATE_RANGE")
          /\ calls[i].result.v.estimated_days = Some(14)

\* the rule governs the primary FROM reference of scope s: the reference's
\* unqualified name is the rule's short name up to letter case
Governs(rule, s) ==
    /\ sql.selects[s].from.is_table
    /\ Lower(sql.selects[s].from.name) = ShortLower(rule.table_name)

\* C12: every primary FROM reference whose unqualified table name equals, up
\* to letter case, the text after the last dot of a rule's table name is
\* checked under that rule, and nothing else is checked under it.
C12_ShortNameMatchIgnoresCase ==
    Done => \A r \in DOMAIN partitioned_tables :
        /\ \A s \in DOMAIN sql.selects :
              Governs(partitioned_tables[r], s) =>
                  \E i \in DOMAIN calls :
                      calls[i].select = s /\ CallRule(i) = partitioned_tables[r]
        /\ \A i \in DOMAIN calls :
              CallRule(i) = partitioned_tables[r] =>
                  Governs(partitioned_tables[r], calls[i].select)

\* the rule for g.SH checks FROM sh, and the rule for f.sh checks FROM SH a
C12_Witness ==
    /\ Done
    /\ Len(calls) = 1
    /\ \/ /\ partitioned_tables[1].table_name = g_SH
          /\ sql.selects[1].from = Table(sh, NoName)
       \/ /\ partitioned_tables[1].table_name = f_sh
          /\ sql.selects[1].from = Table(SH, alias_a)
    /\ CallRule(1) = partitioned_tables[1]
    /\ Is(calls[1].result, "MISSING_DAY_FILTER")

\* the text after the last "." of a table name, as written
RECURSIVE Short(_)
Short(name) ==
    IF \E i \in DOMAIN name : name[i] = "." THEN Short(Tail(name)) ELSE name

\* a table of the query, in a FROM or a JOIN of any SELECT, is the rule's table
Occurs(rule) ==
    \E s \in DOMAIN sql.selects :
        \/ /\ sql.selects[s].from.is_table
           /\ Lower(sql.selects[s].from.name) = ShortLower(rule.table_name)
        \/ \E j \in DOMAIN sql.selects[s].joins :
              Lower(sql.selects[s].joins[j].name) = ShortLower(rule.table_name)

\* C13: every result returned for a parsed query carries the short name of a
\* rule of the registry whose table occurs in the query; when no table of the
\* query has a rule, nothing is checked and the list returned is empty.
C13_UnregisteredTablesIgnored ==
    Done =>
        /\ \A v \in DOMAIN violations :
              \E r \in DOMAIN partitioned_tables :
                  /\ violations[v].table_name = Some(Short(partitioned_tables[r].table_name))
                  /\ Occurs(partitioned_tables[r])
        /\ (\A r \in DOMAIN partitioned_tables : ~Occurs(partitioned_tables[r]))
              => (violations = <<>> /\ calls = <<>>)

\* FROM inv without a WHERE clause, checked with a registry that has sh only
C13_Witness ==
    /\ Done
    /\ partitioned_tables = <<PartitionColumn(f_sh, day)>>
    /\ sql.selects = <<Select(0, "root", Table(inv, NoName), <<>>, FALSE, <<>>)>>
    /\ violations = <<>>

\* the query without its HAVING clauses
StripHaving(q) == [s \in DOMAIN q |-> [q[s] EXCEPT !.having = <<>>]]

\* the SELECT of call i filters in HAVING and has no WHERE clause, nor has
\* anything nested in it
HavingOnly(i) ==
    /\ sql.selects[calls[i].select].having # <<>>
    /\ \A c \in DOMAIN sql.selects :
          IsUnder(sql.selects, c, calls[i].select) => ~sql.selects[c].has_where

ResultSet(list) == {list[i] : i \in DOMAIN list}

NoWhereFound(i) ==
    \A c \in DOMAIN sql.selects :
        IsUnder(sql.selects, c, calls[i].select) => ~sql.selects[c].has_where

\* the kinds of comparison among the qualifying conditions of call i
OpsOf(i) == {CallNodes(i)[k].condition.op : k \in DOMAIN CallNodes(i)}

\* BETWEEN, or =, or a lower-bound node together with an upper-bound node
FiniteOps(ops) ==
    \/ "Between" \in ops
    \/ "EQ" \in ops
    \/ ops \cap {"GT", "GTE"} # {} /\ ops \cap {"LT", "LTE"} # {}

\* C16: the result of a usage-site is decided by the first rule that fails,
\* in the order: no WHERE clause found, no qualifying condition (both
\* MISSING_DAY_FILTER, each with its message), a function on the partition
\* column, no finite range, excessive range.  A range bounded on one side
\* only is NO_FINITE_RANGE even under a rule with a max range, and
\* estimated_days is set on EXCESSIVE_DATE_RANGE results and on no other.
C16_FirstFailingRuleDecides ==
    Done => \A i \in DOMAIN calls :
        LET r == calls[i].result
            noWhere == NoWhereFound(i)
            noCond == CallNodes(i) = <<>>
            wrapped == ~NoWrapping(i)
            finite == FiniteOps(OpsOf(i))
        IN  /\ Is(r, "MISSING_DAY_FILTER") <=> (noWhere \/ noCond)
            /\ noWhere => r.v.message.text = "without a WHERE clause"
            /\ (~noWhere /\ noCond)
                  => r.v.message.text = "without a column filter in WHERE clause"
            /\ Is(r, "DAY_FILTER_WITH_FUNCTION") <=> (~noCond /\ wrapped)
            /\ Is(r, "NO_FINITE_RANGE") <=> (~noCond /\ ~wrapped /\ ~finite)
            /\ Is(r, "EXCESSIVE_DATE_RANGE")
                  => (~noCond /\ ~wrapped /\ finite /\ HasMax(CallRule(i)))
            /\ r.has => (r.v.estimated_days.has <=> r.v.violation = "EXCESSIVE_DATE_RANGE")
            /\ (~noCond /\ ~wrapped /\ (OpsOf(i) \subseteq {"GT", "GTE"}
                                          \/ OpsOf(i) \subseteq {"LT", "LTE"}))
                  => (Is(r, "NO_FINITE_RANGE") /\ r.v.estimated_days = None)

\* a.day >= 2021-09-13 alone on FROM SH a, under the rule with a max of 13 days
C16_Witness ==
    /\ Done
    /\ \E i \in DOMAIN calls :
          /\ CallRule(i).max_date_range_days = Some(13)
          /\ sql.selects[calls[i].select].where = <<Cmp("GTE", Column(alias_a, day), D1)>>
          /\ Is(calls[i].result, "NO_FINITE_RANGE")
          /\ calls[i].result.v.estimated_days = None

\* the operator that says the same with the operands swapped
MirrorOp(op) ==
    CASE op = "GTE" -> "LTE"
      [] op = "GT" -> "LT"
      [] op = "LTE" -> "GTE"
      [] op = "LT" -> "GT"
      [] OTHER -> op

\* an inequality with the column on the right, written with the column on the left
ColumnLeft(condition) ==
    IF /\ condition.op \in {"GTE", "GT", "LTE", "LT"}
       /\ ColumnsOf(condition.this) = {}
       /\ ColumnsOf(condition.expression) # {}
    THEN Cmp(MirrorOp(condition.op), condition.expression, condition.this)
    ELSE condition

\* the query with every reversed inequality written with the column on the left
Normalized(q) ==
    [s \in DOMAIN q |->
        [q[s] EXCEPT !.where = [j \in DOMAIN q[s].where |-> ColumnLeft(q[s].where[j])]]]

\* C17: a usage-site gets the same result (verdict and estimated days) as it
\* gets in the query where every inequality with the partition column on the
\* right is written with the column on the left and the operator mirrored.
C17_ReversedComparisonsAreEquivalent ==
    Done => \A i \in DOMAIN calls :
        calls[i].result =
            _check_table_partition_in_specific_sql(Normalized(sql.selects),
                                                   calls[i].select, CallRule(i))

\* the node compares the raw partition column of the table under test, on
\* the left, with a date literal, by one of the given operators
BoundsWithDate(node, rule, ops) ==
    /\ node.condition.op \in ops
    /\ OwnColumn(node, node.condition.this, rule)
    /\ DateLiteral(node.condition.expression)

\* the days of the year the nodes of the given operators compare the column with
BoundDays(i, ops) ==
    {DayOfYear(CallNodes(i)[k].condition.expression) :
        k \in {j \in DOMAIN CallNodes(i) : BoundsWithDate(CallNodes(i)[j], CallRule(i), ops)}}

Max(S) == CHOOSE x \in S : \A y \in S : y <= x
Min(S) == CHOOSE x \in S : \A y \in S : x <= y

\* C18: when the qualifying conditions of a usage-site are inequalities of
\* the partition column with date literals, lower and upper bounds both
\* present, the estimate of the range check is (upper - lower) in days + 1
\* for lower the latest of the lower-bound dates and upper the earliest of
\* the upper-bound dates.
C18_EstimateUsesTightestBounds ==
    Done => \A i \in DOMAIN calls :
        (/\ HasMax(CallRule(i))
         /\ \A k \in DOMAIN CallNodes(i) :
               BoundsWithDate(CallNodes(i)[k], CallRule(i), {"GT", "GTE", "LT", "LTE"})
         /\ BoundDays(i, {"GT", "GTE"}) # {}
         /\ BoundDays(i, {"LT", "LTE"}) # {})
            => RangeVerdict(i, Min(BoundDays(i, {"LT", "LTE"}))
                               - Max(BoundDays(i, {"GT", "GTE"})) + 1)

\* the qualifier of the column names the primary FROM table of the SELECT of
\* call i, the instance under test, and no table joined to it; the node is a
\* comparison of that SELECT's own WHERE clause
ResolvesToInstance(i, node, column) ==
    LET select == sql.selects[calls[i].select]
    IN  /\ node.parent_select = calls[i].select
        /\ TableKey(select.from) = Lower(column.table)
        /\ \A j \in DOMAIN select.joins : TableKey(select.joins[j]) # Lower(column.table)

\* C19: a qualifying condition all of whose references to the partition
\* column are qualified has one that resolves, among the tables of the
\* FROM/JOIN list of the SELECT that owns the comparison, to the table
\* instance under test; a qualifier that names another instance of the table
\* (a self-join alias) or a table declared in a nested SELECT does not count.
C19_QualifierResolvesToInstance ==
    Done => \A i \in DOMAIN calls : \A k \in DOMAIN CallNodes(i) :
        LET node == CallNodes(i)[k]
            named == {column \in ColumnsOfCondition(node.condition) :
                          Named(column, CallRule(i))}
        IN  (\A column \in named : column.table # NoName)
                => \E column \in named : ResolvesToInstance(i, node, column)

\* some qualifying condition of call i is a node of one of the given kinds
HasNode(i, ops) == \E k \in DOMAIN CallNodes(i) : CallNodes(i)[k].condition.op \in ops

\* C20: a usage-site gets NO_FINITE_RANGE exactly when it has a qualifying
\* condition, none applies a function to the partition column, none is a
\* BETWEEN node or an = node, and the > and >= nodes and the < and <= nodes
\* are not both present; bounds on one side only are NO_FINITE_RANGE.
C20_NoFiniteRangeIff ==
    Done => \A i \in DOMAIN calls :
        Is(calls[i].result, "NO_FINITE_RANGE") <=>
            /\ CallNodes(i) # <<>>
            /\ NoWrapping(i)
            /\ ~HasNode(i, {"Between"})
            /\ ~HasNode(i, {"EQ"})
            /\ ~(HasNode(i, {"GT", "GTE"}) /\ HasNode(i, {"LT", "LTE"}))

\* day <= 2021-09-26 alone: an upper bound and nothing else
C20_Witness ==
    /\ Done
    /\ \E i \in DOMAIN calls :
          /\ sql.selects[calls[i].select].where = <<Cmp("LTE", Column(NoName, day), D2)>>
          /\ ~NoWhereFound(i)
          /\ Len(CallNodes(i)) = 1
          /\ Is(calls[i].result, "NO_FINITE_RANGE")

\* the results returned under the rule: those that carry its short name
ResultsUnder(rule) ==
    {v \in DOMAIN violations : violations[v].table_name = Some(Short(rule.table_name))}

\* the calls of the per-site check made under the rule
CallsUnder(rule) ==
    {i \in DOMAIN calls : Lower(calls[i].table_name) = ShortLower(rule.table_name)}

Over == pc \in {"returned", "failed"} /\ sql.parsed

\* C22: check_query is total on parsed input: for every statement the parser
\* accepts, a FROM clause naming a registered table outside every SELECT
\* included, it returns a list of results and does not raise
C22_CheckQueryIsTotal ==
    Over => pc = "returned" /\ raised = None


\* C23: whenever the range check computes an estimate, it is at least 1 day:
\* a BETWEEN whose high date precedes its low date, or inequality bounds whose
\* upper date precedes the lower one, never give a zero or negative span
C23_EstimateIsPositive ==
    Done => \A i \in DOMAIN calls :
        (/\ EarlierRulesPass(i)
         /\ HasMax(CallRule(i))
         /\ Estimate(i).has)
            => Estimate(i).v >= 1


\* C24: DAY_FILTER_WITH_FUNCTION is reported for a usage-site only when a
\* function call in one of its qualifying conditions takes a partition-column
\* reference of the table under test: comparing the table's raw column with a
\* function of another table's column of the same name does not trigger it
C24_FunctionOnOwnColumnOnly ==
    Done => \A i \in DOMAIN calls :
        Is(calls[i].result, "DAY_FILTER_WITH_FUNCTION")
            => \E k \in DOMAIN CallNodes(i) : WrapsOwnColumn(CallNodes(i)[k], CallRule(i))

====
